---- MODULE Spec2Model ----
(***************************************************************************)
(* Model of the vocabulary builder canister (src/src/index.ts).            *)
(*                                                                         *)
(* The file holds two revisions of the canister and the Candid interface   *)
(* between them.  The model follows the later revision (lines 337-763),    *)
(* whose function declarations are the ones in force.  The earlier one     *)
(* (lines 1-296) differs in its validation: it tests !name instead of      *)
(* name.trim(), does not validate ids or word payloads' fields, and its    *)
(* updateVocabularyList, addWordToList and updateWordInList call           *)
(* arePrincipalsEqual, which is commented out (lines 270-273).             *)
(*                                                                         *)
(* The two StableBTreeMap instances are modelled as functions from keys to *)
(* records whose insert and remove always succeed (the size limits given   *)
(* at lines 369-370 are not modelled).  The canister runs one call to      *)
(* completion before the next, so every exported function is one action.   *)
(* A $query function writes nothing, so its action leaves the state as it  *)
(* is and claims about its result apply its operator to the state.         *)
(*                                                                         *)
(* ic.caller(), ic.time() and uuidv4() are the environment: the caller is  *)
(* an input of each call, every call that reads ic.time() reads a later    *)
(* value than the call before it, and uuidv4 returns any identifier it has *)
(* not returned before.  Whether typeof payload.difficulty is 'number' is  *)
(* an input too: NotANumber stands for a difficulty for which it is not.   *)
(***************************************************************************)
EXTENDS Integers, Sequences, FiniteSets, TLC

\* ------------------------------------------------------------------ bounds

\* number of identifiers uuidv4 can hand out in one behaviour
MaxIds == 3
\* largest value of ic.time(): the number of calls that read the clock
MaxTime == 4

\* ------------------------------------------------------------------ inputs

\* principals that call the canister, in their textual form (toString)
Callers == {"A", "B"}

\* identifiers uuidv4 can return; keys are ordered as the integers are
UuidPool == 1..MaxIds
\* an identifier that is the empty or a whitespace-only string
BlankId == 0
\* an identifier such as "ghost" that uuidv4 never returns
GhostId == MaxIds + 1

\* a difficulty whose typeof is not 'number'
NotANumber == -1

\* the names a caller sends to addVocabularyList and to updateVocabularyList:
\* a whitespace-only one and a proper one each
NewNames == {" ", "Spanish"}
Renames == {" ", "French"}

\* the payloads a caller sends to addWordToList and to updateWordInList: a
\* valid one, one with a blank word and one whose difficulty is not a number
NewWordPayloads ==
    {[word |-> "hola", meaning |-> "hello", difficulty |-> 1],
     [word |-> " ", meaning |-> "hello", difficulty |-> 1],
     [word |-> "hola", meaning |-> "hello", difficulty |-> NotANumber]}
UpdatePayloads ==
    {[word |-> "adios", meaning |-> "bye", difficulty |-> 3],
     [word |-> " ", meaning |-> "bye", difficulty |-> 3],
     [word |-> "adios", meaning |-> "bye", difficulty |-> NotANumber]}
WordPayloads == NewWordPayloads \cup UpdatePayloads

\* the difficulties a caller sends to changeDifficultyOfWord and to
\* getWordsByDifficulty
NewDifficulties == {5}
DifficultyArgs == {1, 3, 5, NotANumber}

\* Opt.None; Opt.Some(t) is <<t>>
None == <<>>
Some(t) == <<t>>

\* ------------------------------------------------------------------ state

\* wordStorage, listStorage: the two StableBTreeMaps
\* generated: the identifiers uuidv4 has returned
\* now: the value ic.time() returned last
\* last: the last call that returned Ok and wrote to a map: the function, its
\*       caller, its arguments and the value returned
VARIABLES wordStorage, listStorage, generated, now, last

vars == <<wordStorage, listStorage, generated, now, last>>

\* ---------------------------------------------------------------- helpers

\* String.prototype.trim on the strings of the model
Trim(s) == IF s \in {"", " "} THEN "" ELSE s

\* id.trim() on the identifiers of the model
TrimId(id) == IF id = BlankId THEN "" ELSE "id"

\* StableBTreeMap.insert: inserts or overwrites
Insert(m, k, v) == [x \in (DOMAIN m) \cup {k} |-> IF x = k THEN v ELSE m[x]]

\* StableBTreeMap.remove: no-op if absent
Remove(m, k) == [x \in (DOMAIN m) \ {k} |-> m[x]]

Min(S) == CHOOSE x \in S : \A y \in S : x <= y

RECURSIVE SortedKeys(_)
SortedKeys(S) == IF S = {} THEN <<>> ELSE <<Min(S)>> \o SortedKeys(S \ {Min(S)})

\* StableBTreeMap.values: the values in ascending key order
Values(m) == LET ks == SortedKeys(DOMAIN m) IN [i \in 1..Len(ks) |-> m[ks[i]]]

\* Array.prototype.slice(0, n)
Slice(s, n) == SubSeq(s, 1, IF Len(s) < n THEN Len(s) ELSE n)

\* Array.prototype.find: the first element with the id, or none
Find(s, wordId) ==
    LET hits == {i \in 1..Len(s) : s[i].id = wordId}
    IN IF hits = {} THEN None ELSE Some(s[Min(hits)])

\* the outcome of a call: the two maps after it and the Result it returns
Ok(ws, ls, value) == [ws |-> ws, ls |-> ls, kind |-> "Ok", value |-> value]
Err(ws, ls, kind) == [ws |-> ws, ls |-> ls, kind |-> kind, value |-> None]

\* the payload validation of addWordToList and updateWordInList
InvalidWordPayload(payload) ==
    \/ Trim(payload.word) = ""
    \/ payload.difficulty = NotANumber

\* ------------------------------------------------------------- operations
\* Each exported function is an operator from the two maps and the call's
\* inputs to the maps after the call and the Result returned.  The error
\* strings of the source are classified by kind: 'Invalid ...' is
\* InvalidInput, '... not available' and '... not found' are NotFound,
\* 'Unauthorized ...' and 'You are not authorized ...' are Unauthorized.
\* The typeof x !== 'string' tests are not modelled: the Candid interface
\* only delivers text for these arguments.

\* addVocabularyList with updated_at stamped at creation
addVocabularyList_StampedUpdated(ws, ls, caller, t, uuid, name) ==
    IF Trim(name) = "" THEN Err(ws, ls, "InvalidInput")
    ELSE LET newVocabularyList ==
                 [id |-> uuid, name |-> name, words |-> <<>>,
                  creator |-> caller, created_at |-> t, updated_at |-> Some(t)]
         IN Ok(ws, Insert(ls, newVocabularyList.id, newVocabularyList),
               newVocabularyList)

addVocabularyList(ws, ls, caller, t, uuid, name) ==
    IF Trim(name) = "" THEN Err(ws, ls, "InvalidInput")
    ELSE LET newVocabularyList ==
                 [id |-> uuid, name |-> name, words |-> <<>>,
                  creator |-> caller, created_at |-> t, updated_at |-> None]
         IN Ok(ws, Insert(ls, newVocabularyList.id, newVocabularyList),
               newVocabularyList)

\* updateVocabularyList without the test of the list's creator
updateVocabularyList_NoOwnerCheck(ws, ls, caller, t, id, name) ==
    IF Trim(name) = "" THEN Err(ws, ls, "InvalidInput")
    ELSE IF id \notin DOMAIN ls THEN Err(ws, ls, "NotFound")
    ELSE LET updatedVocabularyList ==
                 [ls[id] EXCEPT !.name = name, !.updated_at = Some(t)]
         IN Ok(ws, Insert(ls, ls[id].id, updatedVocabularyList),
               updatedVocabularyList)

updateVocabularyList(ws, ls, caller, t, id, name) ==
    IF Trim(name) = "" THEN Err(ws, ls, "InvalidInput")
    ELSE IF id \notin DOMAIN ls THEN Err(ws, ls, "NotFound")
    ELSE IF ls[id].creator # caller THEN Err(ws, ls, "Unauthorized")
    ELSE LET updatedVocabularyList ==
                 [ls[id] EXCEPT !.name = name, !.updated_at = Some(t)]
         IN Ok(ws, Insert(ls, ls[id].id, updatedVocabularyList),
               updatedVocabularyList)

\* Initialize the number of words to list
initWords == 5

\* getInitialWords without the slice: every stored word is returned
getInitialWords_NoSlice(ws, ls) == Ok(ws, ls, Values(ws))

getInitialWords(ws, ls) == Ok(ws, ls, Slice(Values(ws), initWords))

getAllWords(ws, ls) == Ok(ws, ls, Values(ws))

getAllLists(ws, ls) == Ok(ws, ls, Values(ls))

getListById(ws, ls, caller, id) ==
    IF TrimId(id) = "" THEN Err(ws, ls, "InvalidInput")
    ELSE IF id \notin DOMAIN ls THEN Err(ws, ls, "NotFound")
    ELSE IF ls[id].creator # caller THEN Err(ws, ls, "Unauthorized")
    ELSE Ok(ws, ls, ls[id])

\* deleteListById without the test of the list's creator
deleteListById_NoOwnerCheck(ws, ls, caller, id) ==
    IF TrimId(id) = "" THEN Err(ws, ls, "InvalidInput")
    ELSE IF id \notin DOMAIN ls THEN Err(ws, ls, "NotFound")
    ELSE Ok(ws, Remove(ls, id), "deleted")

\* deleteListById that also removes the words of the list from the word store
deleteListById_Cascade(ws, ls, caller, id) ==
    IF TrimId(id) = "" THEN Err(ws, ls, "InvalidInput")
    ELSE IF id \notin DOMAIN ls THEN Err(ws, ls, "NotFound")
    ELSE IF ls[id].creator # caller THEN Err(ws, ls, "Unauthorized")
    ELSE Ok([k \in DOMAIN ws \ {ls[id].words[i].id : i \in 1..Len(ls[id].words)} |-> ws[k]],
            Remove(ls, id), "deleted")

deleteListById(ws, ls, caller, id) ==
    IF TrimId(id) = "" THEN Err(ws, ls, "InvalidInput")
    ELSE IF id \notin DOMAIN ls THEN Err(ws, ls, "NotFound")
    ELSE IF ls[id].creator # caller THEN Err(ws, ls, "Unauthorized")
    ELSE Ok(ws, Remove(ls, id), "deleted")

\* addWordToList without listStorage.insert: the pushed word is not persisted
addWordToList_ListNotPersisted(ws, ls, caller, t, uuid, id, payload) ==
    IF InvalidWordPayload(payload) THEN Err(ws, ls, "InvalidInput")
    ELSE IF id \notin DOMAIN ls THEN Err(ws, ls, "NotFound")
    ELSE IF ls[id].creator # caller THEN Err(ws, ls, "Unauthorized")
    ELSE LET newWord ==
                 [id |-> uuid, word |-> payload.word, meaning |-> payload.meaning,
                  difficulty |-> payload.difficulty, creator |-> caller,
                  created_at |-> t, updated_at |-> None]
         IN Ok(Insert(ws, newWord.id, newWord), ls, newWord)

\* addWordToList with the list's id, not uuidv4(), as the id of the new word
addWordToList_IdOfList(ws, ls, caller, t, uuid, id, payload) ==
    IF InvalidWordPayload(payload) THEN Err(ws, ls, "InvalidInput")
    ELSE IF id \notin DOMAIN ls THEN Err(ws, ls, "NotFound")
    ELSE IF ls[id].creator # caller THEN Err(ws, ls, "Unauthorized")
    ELSE LET newWord ==
                 [id |-> id, word |-> payload.word, meaning |-> payload.meaning,
                  difficulty |-> payload.difficulty, creator |-> caller,
                  created_at |-> t, updated_at |-> None]
             list == [ls[id] EXCEPT !.words = Append(@, newWord)]
         IN Ok(Insert(ws, newWord.id, newWord), Insert(ls, list.id, list), newWord)

\* addWordToList without the test of the list's creator
addWordToList_NoOwnerCheck(ws, ls, caller, t, uuid, id, payload) ==
    IF InvalidWordPayload(payload) THEN Err(ws, ls, "InvalidInput")
    ELSE IF id \notin DOMAIN ls THEN Err(ws, ls, "NotFound")
    ELSE LET newWord ==
                 [id |-> uuid, word |-> payload.word, meaning |-> payload.meaning,
                  difficulty |-> payload.difficulty, creator |-> caller,
                  created_at |-> t, updated_at |-> None]
             list == [ls[id] EXCEPT !.words = Append(@, newWord)]
         IN Ok(Insert(ws, newWord.id, newWord), Insert(ls, list.id, list), newWord)

addWordToList(ws, ls, caller, t, uuid, id, payload) ==
    IF InvalidWordPayload(payload) THEN Err(ws, ls, "InvalidInput")
    ELSE IF id \notin DOMAIN ls THEN Err(ws, ls, "NotFound")
    ELSE IF ls[id].creator # caller THEN Err(ws, ls, "Unauthorized")
    ELSE LET newWord ==
                 [id |-> uuid, word |-> payload.word, meaning |-> payload.meaning,
                  difficulty |-> payload.difficulty, creator |-> caller,
                  created_at |-> t, updated_at |-> None]
             list == [ls[id] EXCEPT !.words = Append(@, newWord)]
         IN Ok(Insert(ws, newWord.id, newWord), Insert(ls, list.id, list), newWord)

\* updateWordInList with the payload validated after wordStorage.insert
updateWordInList_WriteThenValidate(ws, ls, caller, t, listId, wordId, payload) ==
    IF listId \notin DOMAIN ls THEN Err(ws, ls, "NotFound")
    ELSE IF ls[listId].creator # caller THEN Err(ws, ls, "Unauthorized")
    ELSE LET updatedWord ==
                 [id |-> wordId, word |-> payload.word, meaning |-> payload.meaning,
                  difficulty |-> payload.difficulty, creator |-> caller,
                  created_at |-> t, updated_at |-> Some(t)]
             list == [ls[listId] EXCEPT !.words =
                         [i \in 1..Len(@) |->
                             IF @[i].id = wordId THEN updatedWord ELSE @[i]]]
         IN IF InvalidWordPayload(payload)
            THEN Err(Insert(ws, updatedWord.id, updatedWord), ls, "InvalidInput")
            ELSE Ok(Insert(ws, updatedWord.id, updatedWord),
                    Insert(ls, list.id, list), updatedWord)

\* updateWordInList with created_at of the stored word kept
updateWordInList_KeepsCreatedAt(ws, ls, caller, t, listId, wordId, payload) ==
    IF listId \notin DOMAIN ls THEN Err(ws, ls, "NotFound")
    ELSE IF ls[listId].creator # caller THEN Err(ws, ls, "Unauthorized")
    ELSE IF InvalidWordPayload(payload) THEN Err(ws, ls, "InvalidInput")
    ELSE LET updatedWord ==
                 [id |-> wordId, word |-> payload.word, meaning |-> payload.meaning,
                  difficulty |-> payload.difficulty, creator |-> caller,
                  created_at |-> IF wordId \in DOMAIN ws THEN ws[wordId].created_at ELSE t,
                  updated_at |-> Some(t)]
             list == [ls[listId] EXCEPT !.words =
                         [i \in 1..Len(@) |->
                             IF @[i].id = wordId THEN updatedWord ELSE @[i]]]
         IN Ok(Insert(ws, updatedWord.id, updatedWord),
               Insert(ls, list.id, list), updatedWord)

\* updateWordInList with wordStorage.insert keyed by the list's id
updateWordInList_KeyedByList(ws, ls, caller, t, listId, wordId, payload) ==
    IF listId \notin DOMAIN ls THEN Err(ws, ls, "NotFound")
    ELSE IF ls[listId].creator # caller THEN Err(ws, ls, "Unauthorized")
    ELSE IF InvalidWordPayload(payload) THEN Err(ws, ls, "InvalidInput")
    ELSE LET updatedWord ==
                 [id |-> wordId, word |-> payload.word, meaning |-> payload.meaning,
                  difficulty |-> payload.difficulty, creator |-> caller,
                  created_at |-> t, updated_at |-> Some(t)]
             list == [ls[listId] EXCEPT !.words =
                         [i \in 1..Len(@) |->
                             IF @[i].id = wordId THEN updatedWord ELSE @[i]]]
         IN Ok(Insert(ws, listId, updatedWord),
               Insert(ls, list.id, list), updatedWord)

updateWordInList(ws, ls, caller, t, listId, wordId, payload) ==
    IF listId \notin DOMAIN ls THEN Err(ws, ls, "NotFound")
    ELSE IF ls[listId].creator # caller THEN Err(ws, ls, "Unauthorized")
    ELSE IF InvalidWordPayload(payload) THEN Err(ws, ls, "InvalidInput")
    ELSE LET updatedWord ==
                 [id |-> wordId, word |-> payload.word, meaning |-> payload.meaning,
                  difficulty |-> payload.difficulty, creator |-> caller,
                  created_at |-> t, updated_at |-> Some(t)]
             list == [ls[listId] EXCEPT !.words =
                         [i \in 1..Len(@) |->
                             IF @[i].id = wordId THEN updatedWord ELSE @[i]]]
         IN Ok(Insert(ws, updatedWord.id, updatedWord),
               Insert(ls, list.id, list), updatedWord)

\* deleteWordFromList that removes the word-store entry only when the word
\* was in the list
deleteWordFromList_OnlyIfInList(ws, ls, caller, listId, wordId) ==
    IF listId \notin DOMAIN ls THEN Err(ws, ls, "NotFound")
    ELSE IF ls[listId].creator # caller THEN Err(ws, ls, "Unauthorized")
    ELSE LET list == [ls[listId] EXCEPT !.words =
                         SelectSeq(@, LAMBDA word : word.id # wordId)]
         IN Ok(IF Find(ls[listId].words, wordId) # None THEN Remove(ws, wordId) ELSE ws,
               Insert(ls, list.id, list), "deleted")

\* deleteWordFromList without the filter: the word leaves the word store only
deleteWordFromList_ListKept(ws, ls, caller, listId, wordId) ==
    IF listId \notin DOMAIN ls THEN Err(ws, ls, "NotFound")
    ELSE IF ls[listId].creator # caller THEN Err(ws, ls, "Unauthorized")
    ELSE Ok(Remove(ws, wordId), Insert(ls, ls[listId].id, ls[listId]), "deleted")

deleteWordFromList(ws, ls, caller, listId, wordId) ==
    IF listId \notin DOMAIN ls THEN Err(ws, ls, "NotFound")
    ELSE IF ls[listId].creator # caller THEN Err(ws, ls, "Unauthorized")
    ELSE LET list == [ls[listId] EXCEPT !.words =
                         SelectSeq(@, LAMBDA word : word.id # wordId)]
         IN Ok(Remove(ws, wordId), Insert(ls, list.id, list), "deleted")

\* getWordFromList with the word looked up before the list's creator is tested
getWordFromList_FindThenOwner(ws, ls, caller, listId, wordId) ==
    IF listId \notin DOMAIN ls THEN Err(ws, ls, "NotFound")
    ELSE LET word == Find(ls[listId].words, wordId)
         IN IF word = None THEN Err(ws, ls, "NotFound")
            ELSE IF ls[listId].creator # caller THEN Err(ws, ls, "Unauthorized")
            ELSE Ok(ws, ls, word[1])

getWordFromList(ws, ls, caller, listId, wordId) ==
    IF listId \notin DOMAIN ls THEN Err(ws, ls, "NotFound")
    ELSE IF ls[listId].creator # caller THEN Err(ws, ls, "Unauthorized")
    ELSE LET word == Find(ls[listId].words, wordId)
         IN IF word # None THEN Ok(ws, ls, word[1]) ELSE Err(ws, ls, "NotFound")

countWordsInList(ws, ls, caller, id) ==
    IF id \notin DOMAIN ls THEN Err(ws, ls, "NotFound")
    ELSE IF ls[id].creator # caller THEN Err(ws, ls, "Unauthorized")
    ELSE Ok(ws, ls, Len(ls[id].words))

\* changeDifficultyOfWord with the new word also written into the lists that
\* embed it
changeDifficultyOfWord_Propagates(ws, ls, caller, t, wordId, difficulty) ==
    IF wordId \notin DOMAIN ws THEN Err(ws, ls, "NotFound")
    ELSE IF ws[wordId].creator # caller THEN Err(ws, ls, "Unauthorized")
    ELSE LET updatedWord ==
                 [ws[wordId] EXCEPT !.difficulty = difficulty, !.updated_at = Some(t)]
             lists == [id \in DOMAIN ls |->
                          [ls[id] EXCEPT !.words =
                              [i \in 1..Len(@) |->
                                  IF @[i].id = wordId THEN updatedWord ELSE @[i]]]]
         IN Ok(Insert(ws, updatedWord.id, updatedWord), lists, updatedWord)

changeDifficultyOfWord(ws, ls, caller, t, wordId, difficulty) ==
    IF wordId \notin DOMAIN ws THEN Err(ws, ls, "NotFound")
    ELSE IF ws[wordId].creator # caller THEN Err(ws, ls, "Unauthorized")
    ELSE LET updatedWord ==
                 [ws[wordId] EXCEPT !.difficulty = difficulty, !.updated_at = Some(t)]
         IN Ok(Insert(ws, updatedWord.id, updatedWord), ls, updatedWord)

\* getWordsByDifficulty with >= in place of === in the filter
getWordsByDifficulty_AtLeast(ws, ls, difficulty) ==
    IF difficulty = NotANumber THEN Err(ws, ls, "InvalidInput")
    ELSE Ok(ws, ls, SelectSeq(Values(ws), LAMBDA word : word.difficulty >= difficulty))

getWordsByDifficulty(ws, ls, difficulty) ==
    IF difficulty = NotANumber THEN Err(ws, ls, "InvalidInput")
    ELSE Ok(ws, ls, SelectSeq(Values(ws), LAMBDA word : word.difficulty = difficulty))

\* ---------------------------------------------------------------- actions

\* the identifiers a caller can send: those handed out so far, and "ghost"
IdArgs == generated \cup {GhostId}

ResultKinds == {"Ok", "InvalidInput", "NotFound", "Unauthorized"}

Init ==
    /\ wordStorage = <<>>
    /\ listStorage = <<>>
    /\ generated = {}
    /\ now = 0
    /\ last = [op |-> "none"]

\* a call completes: the maps take the outcome's values; a call that returns
\* Ok is recorded
Complete(op, caller, args, out) ==
    /\ wordStorage' = out.ws
    /\ listStorage' = out.ls
    /\ last' = IF out.kind = "Ok"
               THEN [op |-> op, caller |-> caller, args |-> args, value |-> out.value]
               ELSE last

\* an update that reads neither ic.time() nor uuidv4()
Plain(op, caller, args, out) ==
    /\ Complete(op, caller, args, out)
    /\ UNCHANGED <<generated, now>>

\* an update that reads ic.time() when it succeeds
Timed(op, caller, args, out) ==
    /\ out.kind = "Ok" => now < MaxTime
    /\ Complete(op, caller, args, out)
    /\ now' = IF out.kind = "Ok" THEN now + 1 ELSE now
    /\ UNCHANGED generated

\* an update that reads uuidv4() and ic.time() when it succeeds; out(uuid) is
\* its outcome when uuidv4() returns uuid, and a call that fails reads neither
Fresh(op, caller, args, out(_)) ==
    IF out(GhostId).kind = "Ok"
    THEN /\ now < MaxTime
         /\ \E uuid \in UuidPool \ generated :
               /\ Complete(op, caller, args, out(uuid))
               /\ generated' = generated \cup {uuid}
         /\ now' = now + 1
    ELSE /\ Complete(op, caller, args, out(GhostId))
         /\ UNCHANGED <<generated, now>>

\* a $query call: it returns a Result and writes nothing
Query(out) ==
    /\ out.kind \in ResultKinds
    /\ out.ws = wordStorage /\ out.ls = listStorage
    /\ UNCHANGED vars

AddVocabularyList ==
    \E caller \in Callers, name \in NewNames :
        Fresh("addVocabularyList", caller, [name |-> name],
            LAMBDA uuid : addVocabularyList(wordStorage, listStorage, caller,
                                            now + 1, uuid, name))

UpdateVocabularyList ==
    \E caller \in Callers, id \in IdArgs, name \in Renames :
        Timed("updateVocabularyList", caller, [id |-> id, name |-> name],
            updateVocabularyList(wordStorage, listStorage, caller, now + 1, id, name))

GetInitialWords == Query(getInitialWords(wordStorage, listStorage))

GetAllWords == Query(getAllWords(wordStorage, listStorage))

GetAllLists == Query(getAllLists(wordStorage, listStorage))

GetListById ==
    \E caller \in Callers, id \in IdArgs \cup {BlankId} :
        Query(getListById(wordStorage, listStorage, caller, id))

DeleteListById ==
    \E caller \in Callers, id \in IdArgs \cup {BlankId} :
        Plain("deleteListById", caller, [id |-> id],
            deleteListById(wordStorage, listStorage, caller, id))

AddWordToList ==
    \E caller \in Callers, id \in IdArgs, payload \in NewWordPayloads :
        Fresh("addWordToList", caller, [id |-> id, payload |-> payload],
            LAMBDA uuid : addWordToList(wordStorage, listStorage, caller,
                                        now + 1, uuid, id, payload))

UpdateWordInList ==
    \E caller \in Callers, listId \in IdArgs, wordId \in IdArgs,
       payload \in UpdatePayloads :
        Timed("updateWordInList", caller,
            [listId |-> listId, wordId |-> wordId, payload |-> payload],
            updateWordInList(wordStorage, listStorage, caller, now + 1,
                             listId, wordId, payload))

DeleteWordFromList ==
    \E caller \in Callers, listId \in IdArgs, wordId \in IdArgs :
        Plain("deleteWordFromList", caller, [listId |-> listId, wordId |-> wordId],
            deleteWordFromList(wordStorage, listStorage, caller, listId, wordId))

GetWordFromList ==
    \E caller \in Callers, listId \in IdArgs, wordId \in IdArgs :
        Query(getWordFromList(wordStorage, listStorage, caller, listId, wordId))

CountWordsInList ==
    \E caller \in Callers, id \in IdArgs :
        Query(countWordsInList(wordStorage, listStorage, caller, id))

ChangeDifficultyOfWord ==
    \E caller \in Callers, wordId \in IdArgs, difficulty \in NewDifficulties :
        Timed("changeDifficultyOfWord", caller,
            [wordId |-> wordId, difficulty |-> difficulty],
            changeDifficultyOfWord(wordStorage, listStorage, caller, now + 1,
                                   wordId, difficulty))

GetWordsByDifficulty ==
    \E difficulty \in DifficultyArgs :
        Query(getWordsByDifficulty(wordStorage, listStorage, difficulty))

Next ==
    \/ AddVocabularyList
    \/ UpdateVocabularyList
    \/ GetInitialWords
    \/ GetAllWords
    \/ GetAllLists
    \/ GetListById
    \/ DeleteListById
    \/ AddWordToList
    \/ UpdateWordInList
    \/ DeleteWordFromList
    \/ GetWordFromList
    \/ CountWordsInList
    \/ ChangeDifficultyOfWord
    \/ GetWordsByDifficulty

Spec == Init /\ [][Next]_vars

TypeOK == now \in 0..MaxTime /\ generated \subseteq UuidPool

\* ----------------------------------------------------- calls from a state
\* The outcomes of every call a caller can make in the current state, used to
\* state what a call does for every argument.

AllNames == NewNames \cup Renames \cup {""}
AllIds == IdArgs \cup {BlankId}
NextUuids == UuidPool \ generated

\* P holds of every outcome of a call that reads uuidv4(): of one per
\* identifier uuidv4 can return, and of the failing outcome, which reads none
ForEachUuid(out(_), P(_)) ==
    /\ \A uuid \in NextUuids : P(out(uuid))
    /\ out(GhostId).kind # "Ok" => P(out(GhostId))

\* P holds of the outcome of every $update call the caller can make
ForEachUpdate(caller, P(_)) ==
    /\ \A name \in AllNames :
          ForEachUuid(LAMBDA uuid : addVocabularyList(wordStorage, listStorage, caller,
                                                      now + 1, uuid, name), P)
    /\ \A id \in AllIds, name \in AllNames :
          P(updateVocabularyList(wordStorage, listStorage, caller, now + 1, id, name))
    /\ \A id \in AllIds :
          P(deleteListById(wordStorage, listStorage, caller, id))
    /\ \A id \in AllIds, payload \in WordPayloads :
          ForEachUuid(LAMBDA uuid : addWordToList(wordStorage, listStorage, caller,
                                                  now + 1, uuid, id, payload), P)
    /\ \A listId \in AllIds, wordId \in AllIds, payload \in WordPayloads :
          P(updateWordInList(wordStorage, listStorage, caller, now + 1,
                             listId, wordId, payload))
    /\ \A listId \in AllIds, wordId \in AllIds :
          P(deleteWordFromList(wordStorage, listStorage, caller, listId, wordId))
    /\ \A wordId \in AllIds, difficulty \in DifficultyArgs :
          P(changeDifficultyOfWord(wordStorage, listStorage, caller, now + 1,
                                   wordId, difficulty))

\* P holds of the outcome of every $query call the caller can make
ForEachQuery(caller, P(_)) ==
    /\ P(getInitialWords(wordStorage, listStorage))
    /\ P(getAllWords(wordStorage, listStorage))
    /\ P(getAllLists(wordStorage, listStorage))
    /\ \A id \in AllIds : P(getListById(wordStorage, listStorage, caller, id))
    /\ \A listId \in AllIds, wordId \in AllIds :
          P(getWordFromList(wordStorage, listStorage, caller, listId, wordId))
    /\ \A id \in AllIds : P(countWordsInList(wordStorage, listStorage, caller, id))
    /\ \A difficulty \in DifficultyArgs :
          P(getWordsByDifficulty(wordStorage, listStorage, difficulty))

\* the ids of the words embedded in a list
EmbeddedIds(list) == {list.words[i].id : i \in 1..Len(list.words)}

\* the lists that embed a word with the id
ListsEmbedding(wordId) ==
    {id \in DOMAIN listStorage : wordId \in EmbeddedIds(listStorage[id])}

\* ------------------------------------------------------------------ claims

\* C1: every Word embedded in a stored list equals, field for field, the
\* word-store entry with the same id.
C1_EmbeddedEqualsCanonical ==
    \A id \in DOMAIN listStorage :
        \A i \in 1..Len(listStorage[id].words) :
            LET word == listStorage[id].words[i]
            IN word.id \in DOMAIN wordStorage => wordStorage[word.id] = word

\* C2: every Word id embedded in a stored list is a key of the word store.
C2_EmbeddedHasCanonical ==
    \A id \in DOMAIN listStorage :
        EmbeddedIds(listStorage[id]) \subseteq DOMAIN wordStorage

\* C3: every entry of the word store is embedded in exactly one stored list.
C3_CanonicalHasOneOwner ==
    \A wordId \in DOMAIN wordStorage : Cardinality(ListsEmbedding(wordId)) = 1

\* C4: no call changes or removes a stored list whose creator is not the
\* caller: after every call by caller, whatever its arguments, each list of
\* another creator is stored as it was.
C4_ListsOfOthersUntouched ==
    \A caller \in Callers :
        ForEachUpdate(caller, LAMBDA out :
            \A id \in DOMAIN listStorage :
                listStorage[id].creator # caller =>
                    id \in DOMAIN out.ls /\ out.ls[id] = listStorage[id])

\* C4 witness: a caller has just removed a word from a list of its own while
\* a non-empty list of another creator is stored, and the same call on that
\* list is refused.
C4_Witness ==
    /\ last.op = "deleteWordFromList"
    /\ \E id \in DOMAIN listStorage :
          /\ listStorage[id].creator # last.caller
          /\ listStorage[id].words # <<>>
          /\ deleteWordFromList(wordStorage, listStorage, last.caller, id,
                                listStorage[id].words[1].id).kind = "Unauthorized"

\* C5: no step changes or removes a word-store entry whose creator is not the
\* caller of the call the step completes.
C5_WordsOfOthersUntouched ==
    [][\A wordId \in DOMAIN wordStorage :
          (wordId \notin DOMAIN wordStorage' \/ wordStorage'[wordId] # wordStorage[wordId])
              => last'.caller = wordStorage[wordId].creator]_vars

\* C6 as stated: updateList on an existing list of another creator returns
\* Unauthorized for every name and leaves the stored list unchanged.
C6_AlwaysUnauthorized ==
    \A caller \in Callers : \A id \in DOMAIN listStorage : \A name \in AllNames :
        listStorage[id].creator # caller =>
            LET out == updateVocabularyList(wordStorage, listStorage, caller,
                                            now + 1, id, name)
            IN out.kind = "Unauthorized" /\ out.ls[id] = listStorage[id]

\* C6 amended: updateList on an existing list of another creator returns
\* Unauthorized for every name that is not blank and InvalidInput for a blank
\* one, and in both cases leaves both maps unchanged.
C6_UnauthorizedUnlessBlankName ==
    \A caller \in Callers : \A id \in DOMAIN listStorage : \A name \in AllNames :
        listStorage[id].creator # caller =>
            LET out == updateVocabularyList(wordStorage, listStorage, caller,
                                            now + 1, id, name)
            IN /\ out.kind = IF Trim(name) = "" THEN "InvalidInput" ELSE "Unauthorized"
               /\ out.ls = listStorage
               /\ out.ws = wordStorage

\* C6 witness: a list that its creator has renamed is stored, and a rename by
\* another caller is refused.
C6_Witness ==
    /\ last.op = "updateVocabularyList"
    /\ \E caller \in Callers :
          /\ caller # last.caller
          /\ updateVocabularyList(wordStorage, listStorage, caller, now + 1,
                                  last.args.id, "Spanish").kind = "Unauthorized"

C8_CreatorNeverChanges ==
    [][/\ \A wordId \in DOMAIN wordStorage \cap DOMAIN wordStorage' :
             wordStorage'[wordId].creator = wordStorage[wordId].creator
       /\ \A id \in DOMAIN listStorage \cap DOMAIN listStorage' :
             /\ listStorage'[id].creator = listStorage[id].creator
             /\ \A i \in 1..Len(listStorage[id].words) :
                \A j \in 1..Len(listStorage'[id].words) :
                    listStorage'[id].words[j].id = listStorage[id].words[i].id
                        => listStorage'[id].words[j].creator
                               = listStorage[id].words[i].creator]_vars

\* C9: after a successful addWord, getWord by the same caller with the list's
\* id and the returned Word's id returns a Word equal to the one addWord
\* returned.
C9_AddThenGet ==
    last.op = "addWordToList" =>
        LET got == getWordFromList(wordStorage, listStorage, last.caller,
                                   last.args.id, last.value.id)
        IN got.kind = "Ok" /\ got.value = last.value

\* C9 witness: addWord has just succeeded on a list that already held a word.
C9_Witness ==
    /\ last.op = "addWordToList"
    /\ Len(listStorage[last.args.id].words) >= 2

\* C10: after a successful deleteWord, getWord by the same caller with the
\* same ids returns NotFound and the word id is not a key of the word store.
C10_DeleteThenGet ==
    last.op = "deleteWordFromList" =>
        /\ last.args.wordId \notin DOMAIN wordStorage
        /\ getWordFromList(wordStorage, listStorage, last.caller,
                           last.args.listId, last.args.wordId).kind = "NotFound"

\* C10 witness: deleteWord has just succeeded with the id of a word that was
\* not in the list given: another list still embeds it.
C10_Witness ==
    /\ last.op = "deleteWordFromList"
    /\ ListsEmbedding(last.args.wordId) # {}

\* the value countWordsInList returns to the creator of a stored list
CountOf(ws, ls, id) == countWordsInList(ws, ls, ls[id].creator, id).value

\* the ids for which getWordFromList succeeds for the creator of a stored list
Gettable(id) ==
    {wordId \in AllIds :
        getWordFromList(wordStorage, listStorage, listStorage[id].creator,
                        id, wordId).kind = "Ok"}

\* C11 as stated: countWords equals the number of ids added by addWord for
\* which getWord still succeeds, and it decreases by exactly 1 after every
\* deleteWord that returns success, whatever the word id.
C11_CountDropsByOneAlways ==
    \A id \in DOMAIN listStorage :
        /\ CountOf(wordStorage, listStorage, id) = Cardinality(Gettable(id) \cap generated)
        /\ \A wordId \in AllIds :
              LET out == deleteWordFromList(wordStorage, listStorage,
                                            listStorage[id].creator, id, wordId)
              IN out.kind = "Ok" =>
                    CountOf(out.ws, out.ls, id) = CountOf(wordStorage, listStorage, id) - 1

\* C11 amended: countWords equals the number of ids added by addWord for which
\* getWord still succeeds (and getWord succeeds for no other id); a successful
\* deleteWord lowers it by exactly 1 when the word id was in the list and
\* leaves it as it was when the word id was not.
C11_CountDropsByOneIfInList ==
    \A id \in DOMAIN listStorage :
        /\ Gettable(id) \subseteq generated
        /\ CountOf(wordStorage, listStorage, id) = Cardinality(Gettable(id))
        /\ \A wordId \in AllIds :
              LET out == deleteWordFromList(wordStorage, listStorage,
                                            listStorage[id].creator, id, wordId)
              IN /\ out.kind = "Ok"
                 /\ CountOf(out.ws, out.ls, id) =
                       CountOf(wordStorage, listStorage, id)
                           - (IF wordId \in Gettable(id) THEN 1 ELSE 0)

\* C11 witness: deleteWord has just removed a word from a list that still
\* holds another one.
C11_Witness ==
    /\ last.op = "deleteWordFromList"
    /\ last.args.listId \in DOMAIN listStorage
    /\ last.args.wordId \in generated \ DOMAIN listStorage
    /\ CountOf(wordStorage, listStorage, last.args.listId) = 1
    /\ ListsEmbedding(last.args.wordId) = {}

\* C12: addWord checks list existence, then ownership, then the payload: for
\* a list id that is not stored it returns NotFound for every payload, for a
\* list of another caller it returns Unauthorized for every payload, and it
\* returns InvalidInput only when the list exists and the caller owns it.
C12_LookupThenOwnerThenPayload ==
    \A caller \in Callers, id \in AllIds, payload \in WordPayloads :
        ForEachUuid(LAMBDA uuid : addWordToList(wordStorage, listStorage, caller,
                                                now + 1, uuid, id, payload),
                    LAMBDA out :
                        /\ id \notin DOMAIN listStorage => out.kind = "NotFound"
                        /\ (id \in DOMAIN listStorage /\ listStorage[id].creator # caller)
                              => out.kind = "Unauthorized"
                        /\ out.kind = "InvalidInput"
                              => (id \in DOMAIN listStorage /\ listStorage[id].creator = caller))

\* C13: on a stored list, getList, getWord and countWords return Unauthorized
\* to every caller other than the list's creator and hand such a caller no
\* value at all; to the creator getList returns the stored list as it is.
C13_ReadsOfAListAreForItsCreator ==
    \A id \in DOMAIN listStorage, caller \in Callers :
        LET got == getListById(wordStorage, listStorage, caller, id)
            count == countWordsInList(wordStorage, listStorage, caller, id)
            word(wordId) == getWordFromList(wordStorage, listStorage, caller, id, wordId)
            Refused(out) == out.kind = "Unauthorized" /\ out.value = None
        IN IF caller # listStorage[id].creator
           THEN /\ Refused(got)
                /\ Refused(count)
                /\ \A wordId \in AllIds : Refused(word(wordId))
           ELSE /\ got.kind = "Ok"
                /\ got.value = listStorage[id]
                /\ got.ls = listStorage

\* C13 witness: a list that holds a word is stored, so a caller other than its
\* creator has content to ask for.
C13_Witness ==
    \E id \in DOMAIN listStorage, caller \in Callers :
        /\ caller # listStorage[id].creator
        /\ listStorage[id].words # <<>>
        /\ last.op = "addWordToList"
        /\ last.caller = listStorage[id].creator

\* C14: for every record of the two stores, updated_at is None when the
\* record is created, changes only in a successful update of that record, is
\* Some after that update, and never goes back from Some to None.
C14_UpdatedAtNoneUntilFirstUpdate ==
    [][ /\ \A id \in DOMAIN listStorage' \ DOMAIN listStorage :
              listStorage'[id].updated_at = None
        /\ \A id \in DOMAIN wordStorage' \ DOMAIN wordStorage :
              wordStorage'[id].updated_at = None
        /\ \A id \in DOMAIN listStorage' \cap DOMAIN listStorage :
              /\ listStorage[id].updated_at # None => listStorage'[id].updated_at # None
              /\ listStorage'[id].updated_at # listStorage[id].updated_at
                    => (last'.op = "updateVocabularyList" /\ last'.args.id = id)
        /\ \A id \in DOMAIN wordStorage' \cap DOMAIN wordStorage :
              /\ wordStorage[id].updated_at # None => wordStorage'[id].updated_at # None
              /\ wordStorage'[id].updated_at # wordStorage[id].updated_at
                    => ( /\ last'.op \in {"updateWordInList", "changeDifficultyOfWord"}
                         /\ last'.args.wordId = id )
        /\ last'.op = "updateVocabularyList"
              => listStorage'[last'.args.id].updated_at # None
        /\ last'.op \in {"updateWordInList", "changeDifficultyOfWord"}
              => wordStorage'[last'.args.wordId].updated_at # None
      ]_vars

\* the difficulties a caller can ask for that are numbers
NumericDifficulties == DifficultyArgs \ {NotANumber}

\* C15: for every difficulty d, listWordsByDifficulty(d) succeeds and returns
\* exactly the entries of listAllWords() whose difficulty is d: every entry it
\* returns is such an entry, every such entry is returned, and as many are
\* returned as there are.  Neither call has the caller among its inputs.
C15_ByDifficultyIsTheFilterOfAllWords ==
    \A d \in NumericDifficulties :
        LET out == getWordsByDifficulty(wordStorage, listStorage, d)
            all == getAllWords(wordStorage, listStorage).value
            Hits == {i \in 1..Len(all) : all[i].difficulty = d}
        IN /\ out.kind = "Ok"
           /\ Len(out.value) = Cardinality(Hits)
           /\ \A j \in 1..Len(out.value) : \E i \in Hits : all[i] = out.value[j]
           /\ \A i \in Hits : \E j \in 1..Len(out.value) : out.value[j] = all[i]

\* C15 witness: the word store holds words of two difficulties, so the filter
\* both keeps and drops an entry.
C15_Witness ==
    \E d \in NumericDifficulties, i, j \in DOMAIN wordStorage :
        /\ wordStorage[i].difficulty = d
        /\ wordStorage[j].difficulty > d
        /\ Len(getWordsByDifficulty(wordStorage, listStorage, d).value) = 1

\* ------------------------------------------------- a store of many words
\* One caller fills at most ManyLists lists with words until the word store holds more than
\* initWords of them; uuidv4() returns the identifiers in any order, so the
\* key order of the word store differs from the order of insertion.

ManyIds == 7
ManyLists == 1
ManyUuidPool == (GhostId + 1)..(GhostId + ManyIds)

\* an update that reads uuidv4() and ic.time() when it succeeds
FreshOfMany(op, caller, args, out(_)) ==
    IF out(GhostId).kind = "Ok"
    THEN /\ \E uuid \in ManyUuidPool \ generated :
               /\ Complete(op, caller, args, out(uuid))
               /\ generated' = generated \cup {uuid}
         /\ now' = now + 1
    ELSE /\ Complete(op, caller, args, out(GhostId))
         /\ UNCHANGED <<generated, now>>

ManyAddVocabularyList ==
    /\ Cardinality(DOMAIN listStorage) < ManyLists
    /\ FreshOfMany("addVocabularyList", "A", [name |-> "Spanish"],
          LAMBDA uuid : addVocabularyList(wordStorage, listStorage, "A",
                                          now + 1, uuid, "Spanish"))

ManyAddWordToList ==
    \E id \in generated, payload \in {[word |-> "hola", meaning |-> "hello", difficulty |-> 1]} :
        FreshOfMany("addWordToList", "A", [id |-> id, payload |-> payload],
            LAMBDA uuid : addWordToList(wordStorage, listStorage, "A",
                                        now + 1, uuid, id, payload))

ManyNext ==
    \/ ManyAddVocabularyList
    \/ ManyAddWordToList
    \/ GetInitialWords

ManySpec == Init /\ [][ManyNext]_vars

\* the number of keys of the word store below k
Rank(k) == Cardinality({j \in DOMAIN wordStorage : j < k})

\* C16: listInitialWords() succeeds and returns the first min(5, n) entries of
\* the word store in key order, n being the number of stored words: the entry
\* at position i is the one stored under the key with i - 1 keys below it.
C16_InitialWordsAreTheFirstFive ==
    LET out == getInitialWords(wordStorage, listStorage)
        n == Cardinality(DOMAIN wordStorage)
    IN /\ out.kind = "Ok"
       /\ Len(out.value) = IF n < 5 THEN n ELSE 5
       /\ \A i \in 1..Len(out.value) :
             \E k \in DOMAIN wordStorage :
                 Rank(k) = i - 1 /\ out.value[i] = wordStorage[k]

\* C16 witness: the word store holds more than 5 words and the word added
\* last has a key among the first 5, so the result drops words added before.
C16_Witness ==
    /\ Cardinality(DOMAIN wordStorage) > 5
    /\ last.op = "addWordToList"
    /\ Rank(last.value.id) < 5
    /\ Len(getInitialWords(wordStorage, listStorage).value) = 5

\* what the claim says of a createList call that has to succeed: it returns
\* a list of the caller with the name, no words, updated_at None and an id
\* that was no key of the list store, and it stores that record under that id
\* and changes nothing else
CreatesTheList(caller, name, out) ==
    /\ out.kind = "Ok"
    /\ out.value.name = name
    /\ out.value.creator = caller
    /\ out.value.words = <<>>
    /\ out.value.updated_at = None
    /\ out.value.id \notin DOMAIN listStorage
    /\ DOMAIN out.ls = DOMAIN listStorage \cup {out.value.id}
    /\ out.ls[out.value.id] = out.value
    /\ \A id \in DOMAIN listStorage : out.ls[id] = listStorage[id]
    /\ out.ws = wordStorage

\* C17 as stated: createList(name) succeeds in that way for every name that
\* is not the empty string.
C17_EveryNonEmptyNameCreates ==
    \A caller \in Callers, name \in AllNames \ {""}, uuid \in NextUuids :
        CreatesTheList(caller, name,
            addVocabularyList(wordStorage, listStorage, caller, now + 1, uuid, name))

\* C17 amended: createList(name) succeeds in that way for every name that is
\* not empty once trimmed, and returns InvalidInput, storing nothing, for a
\* name of white space only.
C17_EveryNonBlankNameCreates ==
    \A caller \in Callers, name \in AllNames \ {""}, uuid \in NextUuids :
        LET out == addVocabularyList(wordStorage, listStorage, caller, now + 1, uuid, name)
        IN IF Trim(name) # ""
           THEN CreatesTheList(caller, name, out)
           ELSE /\ out.kind = "InvalidInput"
                /\ out.ls = listStorage
                /\ out.ws = wordStorage

\* C17 witness: createList has just stored a second list next to another
\* caller's, and uuidv4() has an identifier left for a third.
C17_Witness ==
    /\ last.op = "addVocabularyList"
    /\ last.value.id \in DOMAIN listStorage
    /\ \E id \in DOMAIN listStorage : listStorage[id].creator # last.caller
    /\ NextUuids # {}

\* C18: changeDifficulty(wordId, d) succeeds exactly when the word store holds
\* wordId and the caller is the creator recorded in that entry, whoever owns
\* the list that embeds the word; when it succeeds, the entry keeps every
\* field but difficulty, which becomes d, and updated_at, which becomes Some
\* of the time of the call, and the list store and every other entry of the
\* word store stay as they were.
C18_ChangeDifficultyWritesOneEntry ==
    \A caller \in Callers, wordId \in AllIds, d \in DifficultyArgs :
        LET out == changeDifficultyOfWord(wordStorage, listStorage, caller,
                                          now + 1, wordId, d)
        IN /\ out.kind = "Ok" <=> ( /\ wordId \in DOMAIN wordStorage
                                   /\ wordStorage[wordId].creator = caller )
           /\ out.kind = "Ok" =>
                 /\ out.ls = listStorage
                 /\ DOMAIN out.ws = DOMAIN wordStorage
                 /\ \A k \in DOMAIN wordStorage \ {wordId} : out.ws[k] = wordStorage[k]
                 /\ out.ws[wordId] = [wordStorage[wordId] EXCEPT !.difficulty = d,
                                                              !.updated_at = Some(now + 1)]
                 /\ out.value = out.ws[wordId]

\* C18 witness: changeDifficulty has just succeeded on a word that a list
\* embeds, and the embedded copy still has the difficulty from before.
C18_Witness ==
    /\ last.op = "changeDifficultyOfWord"
    /\ last.args.wordId \in DOMAIN wordStorage
    /\ wordStorage[last.args.wordId].difficulty = last.args.difficulty
    /\ \E id \in ListsEmbedding(last.args.wordId) :
          \E i \in 1..Len(listStorage[id].words) :
              /\ listStorage[id].words[i].id = last.args.wordId
              /\ listStorage[id].words[i].difficulty # last.args.difficulty

\* the sequence of the ids of the words of a list
IdsOf(list) == [i \in 1..Len(list.words) |-> list.words[i].id]

\* C19: a successful updateWord(listId, wordId, payload) keeps the sequence
\* of word ids of the list (length and order); it returns the Word with id
\* wordId, the payload's fields, creator the caller, created_at the time of
\* the call and updated_at Some of that time; the word-store entry for wordId
\* and every entry of the list with that id equal the returned Word; every
\* other entry of the list, every other field of the list, every other list
\* and every other word-store entry stay as they were.
C19_UpdateWordReplacesInPlace ==
    \A caller \in Callers, listId \in AllIds, wordId \in AllIds, payload \in WordPayloads :
        LET out == updateWordInList(wordStorage, listStorage, caller, now + 1,
                                    listId, wordId, payload)
        IN out.kind = "Ok" =>
              /\ out.value = [id |-> wordId, word |-> payload.word,
                              meaning |-> payload.meaning,
                              difficulty |-> payload.difficulty, creator |-> caller,
                              created_at |-> now + 1, updated_at |-> Some(now + 1)]
              /\ DOMAIN out.ws = DOMAIN wordStorage \cup {wordId}
              /\ out.ws[wordId] = out.value
              /\ \A k \in DOMAIN wordStorage \ {wordId} : out.ws[k] = wordStorage[k]
              /\ DOMAIN out.ls = DOMAIN listStorage
              /\ \A id \in DOMAIN listStorage \ {listId} : out.ls[id] = listStorage[id]
              /\ IdsOf(out.ls[listId]) = IdsOf(listStorage[listId])
              /\ \A i \in 1..Len(out.ls[listId].words) :
                    out.ls[listId].words[i] =
                        IF listStorage[listId].words[i].id = wordId
                        THEN out.value
                        ELSE listStorage[listId].words[i]
              /\ [out.ls[listId] EXCEPT !.words = listStorage[listId].words]
                    = listStorage[listId]

\* C19 witness: updateWord has just replaced the first of two or more words
\* of a list, a word that was created at an earlier time.
C19_Witness ==
    /\ last.op = "updateWordInList"
    /\ last.args.listId \in DOMAIN listStorage
    /\ Len(listStorage[last.args.listId].words) >= 2
    /\ listStorage[last.args.listId].words[1] = last.value
    /\ listStorage[last.args.listId].words[2].created_at < last.value.created_at

\* C20: no Word id occurs in the words of two stored lists, none occurs twice
\* in the words of one list, and a successful addWord appends to the end of
\* the list exactly one entry, whose id was a key of neither store before the
\* call, making the list longer by 1.
C20_WordIdsOccurOnce ==
    /\ \A id \in DOMAIN listStorage :
          \A i, j \in 1..Len(listStorage[id].words) :
              i # j => listStorage[id].words[i].id # listStorage[id].words[j].id
    /\ \A id1, id2 \in DOMAIN listStorage :
          id1 # id2 => EmbeddedIds(listStorage[id1]) \cap EmbeddedIds(listStorage[id2]) = {}
    /\ \A caller \in Callers, id \in AllIds, payload \in WordPayloads, uuid \in NextUuids :
          LET out == addWordToList(wordStorage, listStorage, caller, now + 1,
                                   uuid, id, payload)
          IN out.kind = "Ok" =>
                /\ out.value.id \notin DOMAIN wordStorage
                /\ out.value.id \notin DOMAIN listStorage
                /\ out.ls[id].words = Append(listStorage[id].words, out.value)
                /\ Len(out.ls[id].words) = Len(listStorage[id].words) + 1

\* C20 witness: addWord has just appended a second word to a list.
C20_Witness ==
    /\ last.op = "addWordToList"
    /\ last.args.id \in DOMAIN listStorage
    /\ Len(listStorage[last.args.id].words) = 2
    /\ listStorage[last.args.id].words[2] = last.value
    /\ listStorage[last.args.id].words[1].id # last.value.id

\* C21: a successful deleteList(id) removes the list stored under id and no
\* other, so that getList(id) then returns NotFound to every caller, and it
\* leaves every other list and the whole word store as they were: each word
\* of the deleted list that the word store held is still held, unchanged, and
\* listAllWords returns what it returned before.
C21_DeleteListRemovesOnlyTheList ==
    \A caller \in Callers, id \in AllIds :
        LET out == deleteListById(wordStorage, listStorage, caller, id)
            before == getAllWords(wordStorage, listStorage).value
            after == getAllWords(out.ws, out.ls).value
        IN out.kind = "Ok" =>
              /\ id \in DOMAIN listStorage
              /\ DOMAIN out.ls = DOMAIN listStorage \ {id}
              /\ \A other \in DOMAIN out.ls : out.ls[other] = listStorage[other]
              /\ \A asker \in Callers :
                    getListById(out.ws, out.ls, asker, id).kind = "NotFound"
              /\ out.ws = wordStorage
              /\ after = before
              /\ \A wordId \in EmbeddedIds(listStorage[id]) \cap DOMAIN wordStorage :
                    /\ wordId \in DOMAIN out.ws
                    /\ \E i \in 1..Len(after) : after[i] = wordStorage[wordId]

\* C21 witness: deleteList has just removed a list, and a word added to that
\* list is still in the word store, embedded in no list.
C21_Witness ==
    /\ last.op = "deleteListById"
    /\ last.args.id \notin DOMAIN listStorage
    /\ \E wordId \in DOMAIN wordStorage :
          /\ wordId \in generated
          /\ wordStorage[wordId].updated_at = None
          /\ ListsEmbedding(wordId) = {}
    /\ listStorage # <<>>

\* QueriesBy with getAllLists keeping only the lists the caller created
QueriesBy_OwnListsOnly(caller) ==
    [lists |-> SelectSeq(getAllLists(wordStorage, listStorage).value,
                         LAMBDA list : list.creator = caller),
     words |-> getAllWords(wordStorage, listStorage).value,
     byDifficulty |-> [d \in DifficultyArgs |->
                          getWordsByDifficulty(wordStorage, listStorage, d).value],
     initial |-> getInitialWords(wordStorage, listStorage).value]

\* what the four $query functions without an id argument return when the
\* caller calls them in the current state: ic.caller() is the caller during
\* the call, and none of the four reads it
QueriesBy(caller) ==
    [lists |-> getAllLists(wordStorage, listStorage).value,
     words |-> getAllWords(wordStorage, listStorage).value,
     byDifficulty |-> [d \in DifficultyArgs |->
                          getWordsByDifficulty(wordStorage, listStorage, d).value],
     initial |-> getInitialWords(wordStorage, listStorage).value]

C23_EmbeddedWordsAreTheListCreators ==
    \A id \in DOMAIN listStorage :
        \A i \in 1..Len(listStorage[id].words) :
            listStorage[id].words[i].creator = listStorage[id].creator

\* C23 witness: updateWord has just rewritten a word of a list that holds it,
\* after addWord put it there, while the other caller has a list too.
C23_Witness ==
    /\ last.op = "updateWordInList"
    /\ last.args.listId \in DOMAIN listStorage
    /\ \E i \in 1..Len(listStorage[last.args.listId].words) :
          listStorage[last.args.listId].words[i] = last.value
    /\ \E id \in DOMAIN listStorage : listStorage[id].creator # last.caller

\* every record of a store is under the key that is its id
KeyedById(m) == \A k \in DOMAIN m : m[k].id = k

\* C24: every entry of the word store and of the list store is stored under
\* the key equal to its id field, and no call changes the id of a record that
\* is stored before and after it.
C24_RecordsAreKeyedByTheirId ==
    /\ KeyedById(wordStorage)
    /\ KeyedById(listStorage)
    /\ \A caller \in Callers :
          LET IdsKept(out) ==
                  /\ KeyedById(out.ws)
                  /\ KeyedById(out.ls)
                  /\ \A k \in DOMAIN out.ws \cap DOMAIN wordStorage :
                        out.ws[k].id = wordStorage[k].id
                  /\ \A k \in DOMAIN out.ls \cap DOMAIN listStorage :
                        out.ls[k].id = listStorage[k].id
          IN ForEachUpdate(caller, IdsKept) /\ ForEachQuery(caller, IdsKept)

\* C24 witness: updateWord has just rewritten the entry of a word the store
\* already held, next to another word and under a stored list.
C24_Witness ==
    /\ last.op = "updateWordInList"
    /\ last.args.wordId \in DOMAIN wordStorage
    /\ wordStorage[last.args.wordId] = last.value
    /\ last.value.created_at > 2
    /\ Cardinality(DOMAIN wordStorage) >= 2
    /\ last.args.listId \in DOMAIN listStorage
    /\ last.args.wordId # last.args.listId

====
